---- MODULE Spec2Model ----
(***************************************************************************)
(* ReactNodeView (@remirror/react-utils/src/react-node-view.tsx): the      *)
(* adapter between ProseMirror's NodeView contract (dom, contentDOM,       *)
(* update, destroy) and a React component mounted through a portal         *)
(* container.  One adapter instance is modelled together with the DOM      *)
(* elements it touches and the calls it makes on the portal container.     *)
(***************************************************************************)
EXTENDS Integers, Sequences, FiniteSets, TLC

(* ------------------------------ bounds --------------------------------- *)

\* portal calls (render / remove) recorded before the model stops calling
MaxCalls == 3
\* init() calls that create a backing element
MaxInits == 2

(* --------------------------- node universe ----------------------------- *)

\* domRef?: HTMLElement / contentDOM: undefined / contentDOMWrapper: null
NoElem == 0

\* a null attribute value of a ProseMirror node
Null == -1

AttrNames == {"a"}
AttrValues == {Null, 1}

\* node.type.spec.toDOM and node.isInline for the node types of the schema.
\* toDOM kinds: "none" (no toDOM), "string" (tag name), "element" (a DOM
\* element), "text" (a DOM node that is not an element), "arrayAttrs"
\* ([tag, {attrs}, ...]), "array" ([tag, 0]: no plain-object attribute map).
TypeSpec ==
  [ paragraph |-> [toDOM |-> "none",       tag |-> "",       isInline |-> FALSE],
    mention   |-> [toDOM |-> "none",       tag |-> "",       isInline |-> TRUE],
    heading   |-> [toDOM |-> "string",     tag |-> "h1",     isInline |-> FALSE],
    code      |-> [toDOM |-> "string",     tag |-> "code",   isInline |-> TRUE],
    image     |-> [toDOM |-> "arrayAttrs", tag |-> "img",    isInline |-> TRUE],
    list      |-> [toDOM |-> "array",      tag |-> "ul",     isInline |-> FALSE],
    widget    |-> [toDOM |-> "element",    tag |-> "figure", isInline |-> FALSE],
    bad       |-> [toDOM |-> "text",       tag |-> "#text",  isInline |-> TRUE] ]

TypeNames == DOMAIN TypeSpec

\* ProsemirrorNode: type and attrs (every attribute of the type is present)
Nodes == [type : TypeNames, attrs : [AttrNames -> AttrValues]]

\* no node argument (calls other than update)
NoNode == [type |-> "-", attrs |-> [k \in AttrNames |-> Null]]

\* node.sameMarkup(other): same type and same attributes
sameMarkup(n, other) == n.type = other.type /\ n.attrs = other.attrs

\* String(v) / the DOM's stringification of an attribute value
JSString(v) == CASE v = Null -> "null"
                 [] v = 0 -> "0"
                 [] v = 1 -> "1"
                 [] v = 2 -> "2"
                 [] OTHER -> "NaN"

\* an attribute map without keys
NoAttrs == [k \in {} |-> Null]

\* domSpec[1] of an "arrayAttrs" type: the attributes that are set on the
\* node, unset (null) attributes are left out of the map
SpecAttrs(n) == [k \in {x \in AttrNames : n.attrs[x] # Null} |-> n.attrs[k]]

\* type.spec.toDOM(node) of the type named t: [kind, tag, attrs]
toDOM(t, n) ==
  LET ts == TypeSpec[t] IN
  [kind |-> ts.toDOM, tag |-> ts.tag,
   attrs |-> IF ts.toDOM = "arrayAttrs" THEN SpecAttrs(n) ELSE NoAttrs]

(* ------------------------------- DOM ----------------------------------- *)

\* document.createElement(tag): a fresh element without attributes,
\* classes or children
NewElement(tag) == [tag |-> tag, attrs |-> [k \in {} |-> ""], classes |-> {}, children |-> << >>]

\* element.setAttribute(k, v) for every key of the map attrs
SetAttributes(el, attrs) ==
  [el EXCEPT !.attrs = [k \in (DOMAIN el.attrs) \cup (DOMAIN attrs) |->
                          IF k \in DOMAIN attrs THEN JSString(attrs[k])
                          ELSE el.attrs[k]]]

RECURSIVE Contains(_, _, _)
\* a.contains(b): b is a or a descendant of a
Contains(h, a, b) ==
  \/ a = b
  \/ \E i \in 1..Len(h[a].children) : Contains(h, h[a].children[i], b)

\* parent.appendChild(child): child leaves its old parent and becomes the
\* last child of parent
AppendChild(h, parent, child) ==
  LET detached == [e \in DOMAIN h |->
                     [h[e] EXCEPT !.children = SelectSeq(@, LAMBDA c : c # child)]]
  IN [detached EXCEPT ![parent].children = Append(@, child)]

(* ------------------------------ state ---------------------------------- *)

VARIABLES
  node,               \* this.node
  props,              \* this.props
  withoutEmotion,     \* this.withoutEmotion
  contentKind,        \* what getContentDOM() of this adapter class returns
  domRef,             \* this.domRef (dom)
  contentDOMWrapper,  \* this.contentDOMWrapper
  contentDOM,         \* this.contentDOM
  elems,              \* the DOM elements, by identity 1..Len(elems)
  portal,             \* calls received by this.portalContainer, in order
  rendered,           \* what the latest portalContainer.render call was given
  lastCall,           \* the last call on the adapter and its outcome
  phase               \* lifecycle: "constructed", "initialized" once init()
                      \* has returned, "destroyed" once destroy() has then
                      \* removed the backing element (and from then on)

vars == <<node, props, withoutEmotion, contentKind, domRef, contentDOMWrapper,
          contentDOM, elems, portal, rendered, lastCall, phase>>

ContentKinds == {"none", "wrapper", "nested"}
Predicates == {"default", "never", "sameAttrs"}
\* the DOM node the rendered component hands to the attachment callback
RefNodes == {1}

\* the nodes update() is called with: every node of the stored node's type
\* and one node of another type
OtherType(t) == CASE t = "paragraph" -> "mention"
                  [] t = "mention" -> "heading"
                  [] t = "heading" -> "code"
                  [] t = "code" -> "image"
                  [] t = "image" -> "list"
                  [] t = "list" -> "widget"
                  [] t = "widget" -> "bad"
                  [] OTHER -> "paragraph"
UpdateNodes == {n \in Nodes : n.type = node.type}
                 \cup {[node EXCEPT !.type = OtherType(node.type)]}

Call(op, ret, arg, pred) == [op |-> op, ret |-> ret, arg |-> arg, pred |-> pred]

\* no render call yet
NoRender == [container |-> NoElem, snap |-> NewElement("-"), node |-> NoNode,
             contentDOM |-> NoElem, forwardRef |-> "-", props |-> "-"]

\* the constructor only assigns fields (lines 85-94); field initialisers
\* lines 70-72
Init ==
  /\ node \in Nodes
  /\ props = "props"
  /\ withoutEmotion \in BOOLEAN
  /\ contentKind \in ContentKinds
  /\ domRef = NoElem
  /\ contentDOMWrapper = NoElem
  /\ contentDOM = NoElem
  /\ elems = [i \in 1..Cardinality(RefNodes) |-> NewElement("component")]
  /\ portal = << >>
  /\ rendered = NoRender
  /\ lastCall = Call("new", "this", NoNode, "-")
  /\ phase = "constructed"

\* an entry of the portal container's call log
PortalCall(op, container) == [op |-> op, container |-> container]

(* ---------------------------- operations ------------------------------ *)

\* EDITOR_CLASS_NAME-<type name>-node-view, line 121
ClassName(n) == "remirror-editor-" \o n.type \o "-node-view"

\* this.css(this.style), lines 33 and 77-79: emotion's generated class
\* name, or the empty string when emotion is switched off
css == IF withoutEmotion THEN "" ELSE "css-0"

\* createDomRef() returning whatever DOM node the spec resolves to
createDomRef_NoThrow(n) ==
  LET ts == TypeSpec[n.type]
  IN IF ts.toDOM # "none"
     THEN [threw |-> FALSE, tag |-> toDOM(n.type, n).tag]
     ELSE IF ts.isInline THEN [threw |-> FALSE, tag |-> "span"]
          ELSE [threw |-> FALSE, tag |-> "div"]

\* createDomRef() with the default tags of line 157 exchanged
createDomRef_SwappedDefault(n) ==
  LET ts == TypeSpec[n.type]
      domSpec == toDOM(n.type, n)
  IN IF ts.toDOM # "none"
     THEN CASE domSpec.kind = "text" -> [threw |-> TRUE, tag |-> ""]
            [] OTHER -> [threw |-> FALSE, tag |-> domSpec.tag]
     ELSE IF ts.isInline THEN [threw |-> FALSE, tag |-> "div"]
          ELSE [threw |-> FALSE, tag |-> "span"]

\* createDomRef() that uses the default tag for an array DOM spec instead of
\* domSpec[0], line 155
createDomRef_ArrayDefault(n) ==
  LET ts == TypeSpec[n.type]
      domSpec == toDOM(n.type, n)
  IN IF ts.toDOM # "none" /\ domSpec.kind \in {"string", "text", "element"}
     THEN CASE domSpec.kind = "text" -> [threw |-> TRUE, tag |-> ""]
            [] OTHER -> [threw |-> FALSE, tag |-> domSpec.tag]
     ELSE IF ts.isInline THEN [threw |-> FALSE, tag |-> "span"]
          ELSE [threw |-> FALSE, tag |-> "div"]

\* createDomRef(), lines 138-158: the tag of the element it returns, or
\* threw = TRUE when the DOM spec is a DOM node that is not an element
createDomRef(n) ==
  LET ts == TypeSpec[n.type]
      domSpec == toDOM(n.type, n)
  IN IF ts.toDOM # "none"
     THEN CASE domSpec.kind = "string" -> [threw |-> FALSE, tag |-> domSpec.tag]
            [] domSpec.kind = "text" -> [threw |-> TRUE, tag |-> ""]
            [] domSpec.kind = "element" -> [threw |-> FALSE, tag |-> domSpec.tag]
            [] OTHER -> [threw |-> FALSE, tag |-> domSpec.tag]
     ELSE IF ts.isInline THEN [threw |-> FALSE, tag |-> "span"]
          ELSE [threw |-> FALSE, tag |-> "div"]

\* setDomAttrs() without the copy of node.attrs of lines 233-235
setDomAttrs_NoRaw(self, n, el) ==
  LET ts == TypeSpec[self.type]
      domSpec == toDOM(self.type, n)
  IN IF ts.toDOM # "none" /\ domSpec.kind = "arrayAttrs"
     THEN SetAttributes(el, domSpec.attrs)
     ELSE el

\* setDomAttrs(node, element), lines 213-236; self is this.node, whose type
\* supplies toDOM
setDomAttrs(self, n, el) ==
  LET ts == TypeSpec[self.type]
      domSpec == toDOM(self.type, n)
  IN IF ts.toDOM # "none" /\ domSpec.kind \in {"string", "element", "text"}
     THEN el
     ELSE IF ts.toDOM # "none" /\ domSpec.kind = "arrayAttrs"
          THEN SetAttributes(el, domSpec.attrs)
          ELSE SetAttributes(el, n.attrs)

\* getContentDOM(), lines 160-162, as overridden by the adapter class:
\* the elements it creates (appended to the heap h) and the pair it returns
getContentDOM(h) ==
  LET w == Len(h) + 1 IN
  CASE contentKind = "wrapper" ->
         [h |-> Append(h, NewElement("div")), dom |-> w, contentDOM |-> NoElem]
    [] contentKind = "nested" ->
         [h |-> h \o << [NewElement("div") EXCEPT !.children = <<w + 1>>],
                        NewElement("p") >>,
          dom |-> w, contentDOM |-> w + 1]
    [] OTHER -> [h |-> h, dom |-> NoElem, contentDOM |-> NoElem]

\* elements one init() allocates
ElemsPerInit == CASE contentKind = "wrapper" -> 2
                  [] contentKind = "nested" -> 3
                  [] OTHER -> 1

\* render() that does not pass forwardRef on to the component
render_NoForwardRef(p, forwardRef, n) == [node |-> n, forwardRef |-> "-", props |-> p]

\* render(props, forwardRef), lines 173-184: the element the portal renders
\* for the stored node n
render(p, forwardRef, n) == [node |-> n, forwardRef |-> forwardRef, props |-> p]

\* renderReactComponent() without the early return of lines 128-130
renderReactComponent_NoGuard(dom, h, n, cdom) ==
  LET r == render(props, "handleRef", n) IN
  [portal |-> Append(portal, PortalCall("render", dom)),
   rendered |-> [container |-> dom,
                 snap |-> IF dom = NoElem THEN NewElement("-") ELSE h[dom],
                 node |-> r.node, contentDOM |-> cdom,
                 forwardRef |-> r.forwardRef, props |-> r.props]]

\* renderReactComponent(() => this.render(this.props, this.handleRef)),
\* lines 127-133: the portal's call log and its latest render afterwards,
\* with dom the backing element, h the DOM and n the stored node at the call
renderReactComponent(dom, h, n, cdom) ==
  IF dom = NoElem
  THEN [portal |-> portal, rendered |-> rendered]
  ELSE LET r == render(props, "handleRef", n) IN
       [portal |-> Append(portal, PortalCall("render", dom)),
        rendered |-> [container |-> dom, snap |-> h[dom], node |-> r.node,
                      contentDOM |-> cdom, forwardRef |-> r.forwardRef,
                      props |-> r.props]]

\* init() that assigns the returned contentDOM without the fallback to the
\* wrapper of line 116
init_NoFallback ==
  /\ Len(portal) < MaxCalls
  /\ Len(elems) - Cardinality(RefNodes) < MaxInits * ElemsPerInit
  /\ LET r == createDomRef(node) IN
     IF r.threw
     THEN /\ lastCall' = Call("init", "Error", NoNode, "-")
          /\ UNCHANGED <<node, props, withoutEmotion, contentKind, domRef,
                         contentDOMWrapper, contentDOM, elems, portal, rendered,
                         phase>>
     ELSE LET d == Len(elems) + 1
              h1 == Append(elems, NewElement(r.tag))
              h2 == [h1 EXCEPT ![d] = setDomAttrs(node, node, @)]
              c == getContentDOM(h2)
              attach == c.dom # NoElem
              h3 == IF attach THEN AppendChild(c.h, d, c.dom) ELSE c.h
              cdom == IF attach THEN c.contentDOM ELSE contentDOM
              wrap == IF attach THEN c.dom ELSE contentDOMWrapper
              h4 == [h3 EXCEPT ![d].classes = @ \cup {ClassName(node), css}]
          IN /\ domRef' = d
             /\ contentDOM' = cdom
             /\ contentDOMWrapper' = wrap
             /\ IF css = ""
                THEN \* classList.add("...", "") throws a SyntaxError
                     /\ elems' = h3
                     /\ UNCHANGED <<portal, rendered>>
                     /\ lastCall' = Call("init", "Error", NoNode, "-")
                ELSE /\ elems' = h4
                     /\ portal' = renderReactComponent(d, h4, node, cdom).portal
                     /\ rendered' = renderReactComponent(d, h4, node, cdom).rendered
                     /\ lastCall' = Call("init", "this", NoNode, "-")
             /\ phase' = IF css # "" /\ phase = "constructed" THEN "initialized"
                         ELSE phase
             /\ UNCHANGED <<node, props, withoutEmotion, contentKind>>

\* init(), lines 105-125
init ==
  /\ Len(portal) < MaxCalls
  /\ Len(elems) - Cardinality(RefNodes) < MaxInits * ElemsPerInit
  /\ LET r == createDomRef(node) IN
     IF r.threw
     THEN /\ lastCall' = Call("init", "Error", NoNode, "-")
          /\ UNCHANGED <<node, props, withoutEmotion, contentKind, domRef,
                         contentDOMWrapper, contentDOM, elems, portal, rendered,
                         phase>>
     ELSE LET d == Len(elems) + 1
              h1 == Append(elems, NewElement(r.tag))
              h2 == [h1 EXCEPT ![d] = setDomAttrs(node, node, @)]
              c == getContentDOM(h2)
              attach == c.dom # NoElem
              h3 == IF attach THEN AppendChild(c.h, d, c.dom) ELSE c.h
              cdom == IF attach
                      THEN (IF c.contentDOM # NoElem THEN c.contentDOM ELSE c.dom)
                      ELSE contentDOM
              wrap == IF attach THEN c.dom ELSE contentDOMWrapper
              h4 == [h3 EXCEPT ![d].classes = @ \cup {ClassName(node), css}]
          IN /\ domRef' = d
             /\ contentDOM' = cdom
             /\ contentDOMWrapper' = wrap
             /\ IF css = ""
                THEN \* classList.add("...", "") throws a SyntaxError
                     /\ elems' = h3
                     /\ UNCHANGED <<portal, rendered>>
                     /\ lastCall' = Call("init", "Error", NoNode, "-")
                ELSE /\ elems' = h4
                     /\ portal' = renderReactComponent(d, h4, node, cdom).portal
                     /\ rendered' = renderReactComponent(d, h4, node, cdom).rendered
                     /\ lastCall' = Call("init", "this", NoNode, "-")
             /\ phase' = IF css # "" /\ phase = "constructed" THEN "initialized"
                         ELSE phase
             /\ UNCHANGED <<node, props, withoutEmotion, contentKind>>

\* the validUpdate argument of update(); "default" is the default parameter
validUpdate(p, currentNode, newNode) ==
  CASE p = "never" -> FALSE
    [] p = "sameAttrs" -> currentNode.attrs = newNode.attrs
    [] OTHER -> TRUE

\* line 192 without the type comparison
isValidUpdate_NoTypeCheck(n, p) == validUpdate(p, node, n)

\* line 192 without the call of the predicate
isValidUpdate_NoPredicate(n, p) == node.type = n.type

\* line 192
isValidUpdate(n, p) == node.type = n.type /\ validUpdate(p, node, n)

\* update() that syncs the attributes before it validates the update
update_SyncFirst(n, p) ==
  LET h == IF domRef # NoElem /\ ~sameMarkup(node, n)
           THEN [elems EXCEPT ![domRef] = setDomAttrs(node, n, @)]
           ELSE elems
  IN IF ~isValidUpdate(n, p)
     THEN /\ lastCall' = Call("update", "false", n, p)
          /\ elems' = h
          /\ UNCHANGED <<node, props, withoutEmotion, contentKind, domRef,
                         contentDOMWrapper, contentDOM, portal, rendered, phase>>
     ELSE /\ domRef # NoElem => Len(portal) < MaxCalls
          /\ elems' = h
          /\ node' = n
          /\ portal' = renderReactComponent(domRef, h, n, contentDOM).portal
          /\ rendered' = renderReactComponent(domRef, h, n, contentDOM).rendered
          /\ lastCall' = Call("update", "true", n, p)
          /\ UNCHANGED <<props, withoutEmotion, contentKind, domRef,
                         contentDOMWrapper, contentDOM, phase>>

\* update() that builds a new backing element when the markup changed
update_Recreate(n, p) ==
  IF ~isValidUpdate(n, p)
  THEN /\ lastCall' = Call("update", "false", n, p)
       /\ UNCHANGED <<node, props, withoutEmotion, contentKind, domRef,
                      contentDOMWrapper, contentDOM, elems, portal, rendered,
                      phase>>
  ELSE LET fresh == domRef # NoElem /\ ~sameMarkup(node, n)
           d == IF fresh THEN Len(elems) + 1 ELSE domRef
           h == IF fresh
                THEN Append(elems, setDomAttrs(node, n, NewElement(elems[domRef].tag)))
                ELSE elems
       IN /\ domRef # NoElem => Len(portal) < MaxCalls
          /\ elems' = h
          /\ domRef' = d
          /\ node' = n
          /\ portal' = renderReactComponent(d, h, n, contentDOM).portal
          /\ rendered' = renderReactComponent(d, h, n, contentDOM).rendered
          /\ lastCall' = Call("update", "true", n, p)
          /\ UNCHANGED <<props, withoutEmotion, contentKind,
                         contentDOMWrapper, contentDOM, phase>>

\* update(node, _, validUpdate), lines 186-206
update(n, p) ==
  IF ~isValidUpdate(n, p)
  THEN /\ lastCall' = Call("update", "false", n, p)
       /\ UNCHANGED <<node, props, withoutEmotion, contentKind, domRef,
                      contentDOMWrapper, contentDOM, elems, portal, rendered,
                      phase>>
  ELSE LET h == IF domRef # NoElem /\ ~sameMarkup(node, n)
                THEN [elems EXCEPT ![domRef] = setDomAttrs(node, n, @)]
                ELSE elems
       IN /\ domRef # NoElem => Len(portal) < MaxCalls
          /\ elems' = h
          /\ node' = n
          /\ portal' = renderReactComponent(domRef, h, n, contentDOM).portal
          /\ rendered' = renderReactComponent(domRef, h, n, contentDOM).rendered
          /\ lastCall' = Call("update", "true", n, p)
          /\ UNCHANGED <<props, withoutEmotion, contentKind, domRef,
                         contentDOMWrapper, contentDOM, phase>>

\* the argument of handleRef as recorded with the call
RefArg(ref) == IF ref = NoElem THEN "undefined" ELSE "node"

\* handleRef without the negation of node.contains(contentDOM), line 168
handleRef_NoNegation(ref) ==
  LET content == IF contentDOMWrapper # NoElem THEN contentDOMWrapper
                 ELSE contentDOM
  IN /\ elems' = IF ref # NoElem /\ content # NoElem /\ Contains(elems, ref, content)
                 THEN AppendChild(elems, ref, content)
                 ELSE elems
     /\ lastCall' = Call("handleRef", "void", NoNode, RefArg(ref))
     /\ UNCHANGED <<node, props, withoutEmotion, contentKind, domRef,
                    contentDOMWrapper, contentDOM, portal, rendered, phase>>

\* handleRef(node), lines 164-171; ref = NoElem is an undefined argument
handleRef(ref) ==
  LET content == IF contentDOMWrapper # NoElem THEN contentDOMWrapper
                 ELSE contentDOM
  IN /\ elems' = IF ref # NoElem /\ content # NoElem /\ ~Contains(elems, ref, content)
                 THEN AppendChild(elems, ref, content)
                 ELSE elems
     /\ lastCall' = Call("handleRef", "void", NoNode, RefArg(ref))
     /\ UNCHANGED <<node, props, withoutEmotion, contentKind, domRef,
                    contentDOMWrapper, contentDOM, portal, rendered, phase>>

\* destroy() without the early return of lines 242-244
destroy_NoGuard ==
  /\ Len(portal) < MaxCalls
  /\ lastCall' = Call("destroy", "void", NoNode, "-")
  /\ portal' = Append(portal, PortalCall("remove", domRef))
  /\ domRef' = NoElem
  /\ contentDOM' = NoElem
  /\ phase' = IF phase = "initialized" /\ domRef # NoElem THEN "destroyed"
              ELSE phase
  /\ UNCHANGED <<node, props, withoutEmotion, contentKind,
                 contentDOMWrapper, elems, rendered>>

\* destroy(), lines 241-249
destroy ==
  /\ domRef # NoElem => Len(portal) < MaxCalls
  /\ lastCall' = Call("destroy", "void", NoNode, "-")
  /\ IF domRef = NoElem
     THEN UNCHANGED <<node, props, withoutEmotion, contentKind, domRef,
                      contentDOMWrapper, contentDOM, elems, portal, rendered,
                      phase>>
     ELSE /\ portal' = Append(portal, PortalCall("remove", domRef))
          /\ domRef' = NoElem
          /\ contentDOM' = NoElem
          /\ phase' = IF phase = "initialized" THEN "destroyed" ELSE phase
          /\ UNCHANGED <<node, props, withoutEmotion, contentKind,
                         contentDOMWrapper, elems, rendered>>

Next ==
  \/ init
  \/ \E n \in UpdateNodes, p \in Predicates : update(n, p)
  \/ \E ref \in RefNodes \cup {NoElem} : handleRef(ref)
  \/ destroy

Spec == Init /\ [][Next]_vars

TypeOK ==
  /\ node \in Nodes
  /\ domRef \in 0..Len(elems)
  /\ contentDOM \in 0..Len(elems)
  /\ contentDOMWrapper \in 0..Len(elems)
  /\ Len(portal) <= MaxCalls
  /\ Len(elems) <= Cardinality(RefNodes) + MaxInits * ElemsPerInit

(* ------------------------------ claims --------------------------------- *)

\* portalContainer.render / remove calls received so far
Renders(log) == {i \in 1..Len(log) : log[i].op = "render"}
Removes(log) == {i \in 1..Len(log) : log[i].op = "remove"}

\* the step is a call of update() (node is the stored node before the call)
UpdateStep == lastCall'.op = "update"

\* C1: update() returns false whenever the replacement node's type differs
\* from the stored node's type, whatever the validity predicate (the default
\* always-true predicate included) would return.
C1_TypeChangeRejected ==
  [][UpdateStep /\ lastCall'.arg.type # node.type => lastCall'.ret = "false"]_vars

\* a rejected update with a node of another type under the default predicate
C1_Witness ==
  /\ lastCall.op = "update"
  /\ lastCall.arg.type # node.type
  /\ lastCall.pred = "default"
  /\ lastCall.ret = "false"

\* C2: update() with a replacement node of the stored node's type returns
\* false whenever the validity predicate returns false for (current, new).
C2_PredicateRejects ==
  [][UpdateStep /\ lastCall'.arg.type = node.type
       /\ ~validUpdate(lastCall'.pred, node, lastCall'.arg)
     => lastCall'.ret = "false"]_vars

\* a rejected update with a node of the same type
C2_Witness ==
  /\ lastCall.op = "update"
  /\ lastCall.arg.type = node.type
  /\ ~validUpdate(lastCall.pred, node, lastCall.arg)
  /\ lastCall.ret = "false"

\* C3: destroy() is idempotent: called on an adapter without a backing
\* element (never initialized, or already phase) it returns normally and
\* changes no field, no element and calls nothing on the portal; called on an
\* adapter with a backing element it calls remove once, for an element that
\* was not removed before.
C3_DestroyIdempotent ==
  [][lastCall'.op = "destroy" =>
       /\ lastCall'.ret = "void"
       /\ IF domRef = NoElem
          THEN UNCHANGED <<node, props, domRef, contentDOMWrapper, contentDOM,
                           elems, portal, rendered>>
          ELSE /\ portal' = Append(portal, PortalCall("remove", domRef))
               /\ \A i \in Removes(portal) : portal[i].container # domRef]_vars

\* a destroy() after the adapter was phase: the one remove call was
\* followed by an accepted update that could not render, then by destroy()
C3_Witness ==
  /\ lastCall.op = "destroy"
  /\ phase = "destroyed"
  /\ domRef = NoElem
  /\ Cardinality(Removes(portal)) = 1
  /\ rendered.node \notin {NoNode, node}

\* the attribute set the DOM spec of node n prescribes: the toDOM-derived
\* attributes, or the node's own attribute map without a toDOM attribute map
ExpectedAttrs(n) ==
  LET kind == TypeSpec[n.type].toDOM IN
  CASE kind = "arrayAttrs" -> [k \in DOMAIN SpecAttrs(n) |-> JSString(n.attrs[k])]
    [] kind \in {"none", "array"} -> [k \in AttrNames |-> JSString(n.attrs[k])]
    [] OTHER -> [k \in {} |-> ""]

\* C4: when update() returns true and the markup changed, the backing
\* element's attributes afterwards are exactly the new node's attribute set;
\* no attribute of an earlier node remains.
C4_NoStaleAttrs ==
  [][UpdateStep /\ lastCall'.ret = "true" /\ domRef # NoElem
       /\ ~sameMarkup(node, lastCall'.arg)
     => elems'[domRef].attrs = ExpectedAttrs(lastCall'.arg)]_vars

\* C5: after destroy() on an initialized adapter, remove was called with the
\* backing element and dom, contentDOM and the content wrapper are all empty.
C5_DestroyClearsRefs ==
  lastCall.op = "destroy" /\ phase = "destroyed" =>
    /\ portal # << >> /\ portal[Len(portal)].op = "remove"
    /\ domRef = NoElem
    /\ contentDOM = NoElem
    /\ contentDOMWrapper = NoElem

\* C6: phase is terminal: once destroy() has run on an initialized
\* adapter, no later call gives the adapter a backing element again or
\* causes another portal render.
C6_DestroyedTerminal ==
  [][phase = "destroyed" => domRef' = NoElem /\ Renders(portal') = Renders(portal)]_vars

\* C7: constructing never renders; the first portal render happens inside
\* init(), once, after the backing element exists with the node's attributes,
\* the content subtree attached, contentDOM assigned and the class added.
C7_FirstRenderInInit ==
  [][Renders(portal) = {} /\ Renders(portal') # {} =>
       /\ lastCall'.op = "init"
       /\ Cardinality(Renders(portal')) = 1
       /\ rendered'.container = domRef'
       /\ rendered'.snap = elems'[domRef']
       /\ ClassName(node) \in rendered'.snap.classes
       /\ rendered'.snap = setDomAttrs(node, node, rendered'.snap)
       /\ rendered'.contentDOM = contentDOM'
       /\ contentDOMWrapper' # NoElem =>
            \E i \in 1..Len(rendered'.snap.children) :
               rendered'.snap.children[i] = contentDOMWrapper']_vars

\* C8: when the node type's toDOM resolves to a DOM node that is not an
\* element, init() raises: the adapter has no backing element, no element or
\* class was created for it and the portal is never asked to render.
C8_NonElementSpecThrows ==
  TypeSpec[node.type].toDOM = "text" =>
    /\ lastCall.op = "init" => lastCall.ret = "Error"
    /\ domRef = NoElem
    /\ Len(elems) = Cardinality(RefNodes)
    /\ \A e \in 1..Len(elems) : elems[e].classes = {}
    /\ portal = << >>

\* init() was called with a non-element DOM spec
C8_Witness ==
  /\ TypeSpec[node.type].toDOM = "text"
  /\ lastCall.op = "init"
  /\ lastCall.ret = "Error"

\* C9: the backing element is never recreated: every update() call, accepted
\* or not, leaves dom the same element with the same tag and creates no
\* element, and a render it causes has that element as its container.
C9_ElementNeverRecreated ==
  [][UpdateStep /\ domRef # NoElem =>
       /\ domRef' = domRef
       /\ Len(elems') = Len(elems)
       /\ elems'[domRef].tag = elems[domRef].tag
       /\ portal' # portal =>
            /\ portal'[Len(portal')] = PortalCall("render", domRef)
            /\ rendered'.container = domRef]_vars

\* an accepted update with a markup change on an initialized adapter, after
\* which the portal rendered into the element init() created
C9_Witness ==
  /\ lastCall.op = "update"
  /\ lastCall.ret = "true"
  /\ domRef # NoElem
  /\ rendered.container = domRef
  /\ rendered.node = node
  /\ elems[domRef].attrs # rendered.snap.attrs \/ Cardinality(Renders(portal)) >= 2

\* C10: every update() that returns true on an adapter holding its backing
\* element stores the replacement node and calls the portal's render exactly
\* once, with the unchanged props, the attachment callback and the backing
\* element as container.
C10_AcceptedUpdateRenders ==
  [][UpdateStep /\ lastCall'.ret = "true" /\ domRef # NoElem =>
       /\ node' = lastCall'.arg
       /\ portal' = Append(portal, PortalCall("render", domRef))
       /\ props' = props
       /\ rendered'.props = props
       /\ rendered'.forwardRef = "handleRef"
       /\ rendered'.container = domRef
       /\ rendered'.node = lastCall'.arg]_vars

\* an accepted update on an initialized adapter that replaced the node
C10_Witness ==
  /\ lastCall.op = "update"
  /\ lastCall.ret = "true"
  /\ domRef # NoElem
  /\ node = lastCall.arg
  /\ portal[Len(portal)] = PortalCall("render", domRef)
  /\ rendered.props = props

\* C11: a rejected update() leaves no partial state: the stored node, the
\* backing element and every element's attributes and children, contentDOM
\* and the content wrapper are unchanged and the portal is not called.
C11_RejectedUpdateNoEffect ==
  [][UpdateStep /\ lastCall'.ret = "false" =>
       UNCHANGED <<node, props, domRef, contentDOM, contentDOMWrapper, elems,
                   portal, rendered>>]_vars

\* an update rejected by the predicate on an adapter holding its element,
\* for a node whose attributes differ from the element's
C11_Witness ==
  /\ lastCall.op = "update"
  /\ lastCall.ret = "false"
  /\ lastCall.pred = "never"
  /\ domRef # NoElem
  /\ lastCall.arg.type = node.type
  /\ lastCall.arg.attrs # node.attrs
  /\ TypeSpec[node.type].toDOM = "none"
  /\ elems[domRef].attrs = [k \in AttrNames |-> JSString(node.attrs[k])]

\* the subtree handleRef moves, line 165
ContentSubtree == IF contentDOMWrapper # NoElem THEN contentDOMWrapper ELSE contentDOM

\* how often element c occurs as a child in the DOM h
Occurrences(h, c) ==
  Cardinality({<<e, i>> \in (DOMAIN h) \X (1..Len(h)) :
                 i <= Len(h[e].children) /\ h[e].children[i] = c})

\* C12: the attachment callback appends the content subtree into the given
\* node exactly when a node is given, a content subtree exists and the node
\* does not contain it yet; otherwise it changes nothing.  Afterwards the node
\* contains the subtree (a repeated call is a no-op) and the subtree occurs
\* once in the DOM.
C12_HandleRefIdempotent ==
  [][lastCall'.op = "handleRef" =>
       /\ UNCHANGED <<node, domRef, contentDOM, contentDOMWrapper, portal>>
       /\ IF lastCall'.pred = "node" /\ ContentSubtree # NoElem
             /\ \E r \in RefNodes : ~Contains(elems, r, ContentSubtree)
          THEN \E r \in RefNodes :
                 /\ elems' = AppendChild(elems, r, ContentSubtree)
                 /\ Contains(elems', r, ContentSubtree)
                 /\ Occurrences(elems', ContentSubtree) = 1
          ELSE elems' = elems]_vars

\* the callback was given a node and the node now holds the content subtree
C12_Witness ==
  /\ lastCall.op = "handleRef"
  /\ lastCall.pred = "node"
  /\ ContentSubtree # NoElem
  /\ \E r \in RefNodes : elems[r].children = <<ContentSubtree>>

\* C13: for a node whose type has no toDOM, the backing element init()
\* created is a span if and only if the node is inline, and a div otherwise.
C13_DefaultTag ==
  TypeSpec[node.type].toDOM = "none" /\ domRef # NoElem =>
    /\ elems[domRef].tag = "span" <=> TypeSpec[node.type].isInline
    /\ elems[domRef].tag = "div" <=> ~TypeSpec[node.type].isInline

\* init() has created the element of an inline node without toDOM
C13_Witness ==
  /\ TypeSpec[node.type].toDOM = "none"
  /\ TypeSpec[node.type].isInline
  /\ lastCall.op = "init"
  /\ domRef # NoElem
  /\ elems[domRef].tag = "span"

\* C14: for a node whose toDOM yields a tag string, directly or as the first
\* entry of an array spec, the backing element init() created has exactly
\* that tag, whether the node is inline or not.
C14_SpecTag ==
  TypeSpec[node.type].toDOM \in {"string", "arrayAttrs", "array"} /\ domRef # NoElem =>
    elems[domRef].tag = TypeSpec[node.type].tag

\* init() has created the element of a block node with an array spec, whose
\* tag is not the default tag of a block node
C14_Witness ==
  /\ TypeSpec[node.type].toDOM = "array"
  /\ ~TypeSpec[node.type].isInline
  /\ lastCall.op = "init"
  /\ domRef # NoElem
  /\ elems[domRef].tag = "ul"

\* C15: after init() has returned, contentDOM is defined if and only if
\* getContentDOM() returned a wrapper; the wrapper is then a child of the
\* backing element, and contentDOM is the inner content node when one was
\* returned and the wrapper itself otherwise.
C15_ContentDOMAfterInit ==
  lastCall.op = "init" /\ lastCall.ret = "this" =>
    /\ contentDOM # NoElem <=> contentKind # "none"
    /\ contentDOMWrapper # NoElem <=> contentKind # "none"
    /\ contentKind # "none" =>
         /\ \E i \in 1..Len(elems[domRef].children) :
              elems[domRef].children[i] = contentDOMWrapper
         /\ contentDOM = IF contentKind = "nested"
                         THEN elems[contentDOMWrapper].children[1]
                         ELSE contentDOMWrapper

\* init() returned for an adapter whose getContentDOM() gives a wrapper
\* without inner content: the wrapper is the content target
C15_Witness ==
  /\ lastCall.op = "init"
  /\ lastCall.ret = "this"
  /\ contentKind = "wrapper"
  /\ contentDOM = contentDOMWrapper
  /\ contentDOM # NoElem
  /\ elems[domRef].children = <<contentDOMWrapper>>

\* every key of the attribute map m is an attribute of element el, with the
\* stringified value
AttrsOn(m, el) ==
  \A k \in DOMAIN m : k \in DOMAIN el.attrs /\ el.attrs[k] = JSString(m[k])

\* C16 as stated: init() copies the node's attributes onto the backing
\* element for every shape of DOM spec and never leaves the element without
\* them: every attribute that is set on the node is on the element.
C16_AttrsAlwaysCopied ==
  lastCall.op = "init" /\ domRef # NoElem =>
    \A k \in AttrNames :
       node.attrs[k] # Null =>
         k \in DOMAIN elems[domRef].attrs
           /\ elems[domRef].attrs[k] = JSString(node.attrs[k])

\* what setDomAttrs(n, element) has done to the element: before -> after
AttrsSynced(n, before, after) ==
  LET kind == TypeSpec[n.type].toDOM IN
  CASE kind = "arrayAttrs" -> AttrsOn(SpecAttrs(n), after)
    [] kind \in {"none", "array"} -> AttrsOn(n.attrs, after)
    [] OTHER -> after.attrs = before.attrs

\* C16 (amended): init() and the attribute sync of an accepted update() with
\* a markup change set the toDOM attribute map of an array spec that has
\* one, and the node's own attribute map when there is no toDOM or the array
\* spec has no such map; with a string or DOM-node spec they set no
\* attribute at all.
C16_AttrsCopiedPerSpecShape ==
  [][/\ lastCall'.op = "init" /\ domRef' # domRef =>
          AttrsSynced(node, NewElement(elems'[domRef'].tag), elems'[domRef'])
     /\ UpdateStep /\ lastCall'.ret = "true" /\ domRef # NoElem
          /\ ~sameMarkup(node, lastCall'.arg) =>
          AttrsSynced(lastCall'.arg, elems[domRef], elems'[domRef])]_vars

\* init() on a node with an array spec without attribute map has put the
\* node's own attribute on the element
C16_Witness ==
  /\ lastCall.op = "init"
  /\ TypeSpec[node.type].toDOM = "array"
  /\ domRef # NoElem
  /\ node.attrs["a"] = 1
  /\ "a" \in DOMAIN elems[domRef].attrs
  /\ elems[domRef].attrs["a"] = "1"

\* C17: the portal's render is called only while the adapter holds a backing
\* element: an update() on an adapter without one (not initialized, or
\* destroyed) never calls render, also when it returns true and stores the
\* node; and every render goes into the element the adapter holds, which
\* was not removed before.
C17_RenderOnlyWithElement ==
  [][/\ UpdateStep /\ domRef = NoElem =>
          /\ portal' = portal
          /\ rendered' = rendered
          /\ lastCall'.ret = "true" => node' = lastCall'.arg
     /\ portal' # portal /\ portal'[Len(portal')].op = "render" =>
          /\ domRef' # NoElem
          /\ portal'[Len(portal')].container = domRef'
          /\ \A i \in Removes(portal) : portal[i].container # domRef']_vars

\* an accepted update() on a destroyed adapter: the node was replaced and
\* the portal's last call is still the remove
C17_Witness ==
  /\ lastCall.op = "update"
  /\ lastCall.ret = "true"
  /\ phase = "destroyed"
  /\ domRef = NoElem
  /\ node = lastCall.arg
  /\ rendered.node # node
  /\ portal # << >>
  /\ portal[Len(portal)].op = "remove"

\* C18: mount and unmount are balanced: every remove(container) the portal
\* receives was preceded by a render with that container, and no container
\* is removed twice.
C18_MountUnmountBalanced ==
  \A i \in Removes(portal) :
     /\ \E j \in Renders(portal) : j < i /\ portal[j].container = portal[i].container
     /\ \A j \in Removes(portal) : j # i => portal[j].container # portal[i].container

\* C19: an attachment callback delivered after destroy() has run (the
\* adapter holds no backing element any more) does not change the DOM.
C19_LateHandleRefNoMutation ==
  [][lastCall'.op = "handleRef" /\ phase = "destroyed" /\ domRef = NoElem =>
       elems' = elems]_vars
====
